---- MODULE Spec2Model ----
(***************************************************************************)
(* Model of mcp_servers/sqlite_tools.py: seven tool operations over one    *)
(* SQLite database file.  Every call opens its own connection, runs its    *)
(* statements, leaves the "with" block (commit or rollback) and returns a  *)
(* result dictionary.  The database file is the only durable state.        *)
(***************************************************************************)
EXTENDS Integers, Sequences, FiniteSets, TLC

VARIABLES
    db,         \* committed content of the database file: tables in sqlite_master order
    last,       \* the most recent finished call: its arguments, fault and result
    conn,       \* the connection the most recent finished call opened: none, open, closed
    lastRowId,  \* history: per table, row_id of the latest successful insert_data (0: none)
    bk          \* the backup_database call in progress (concurrent specification)

vars == <<db, last, conn, lastRowId, bk>>

----------------------------------------------------------------------------
(* Bounds of the model *)

MaxRows == 1        \* rows in the database that calls build up (Spec, SpecConc)
MaxId == 2          \* explicit integer keys and deleted row ids are in 1..MaxId
MaxExtra == 2       \* rows that calls add to a table (SpecRows)

(* Program constants *)

DEFAULT_DB_PATH == "database.db"
DefaultLimit == 100
DefaultOffset == 0

TableNames == {"t", "u"}

----------------------------------------------------------------------------
(* Values.  A scalar is an integer, a text or NULL.  A text is either the   *)
(* decimal spelling of an integer n >= 1 (TxtV(n)) or a non-numeric text    *)
(* (TxtV(0)).                                                               *)

IntV(n) == [k |-> "int", n |-> n]
TxtV(n) == [k |-> "text", n |-> n]
Null == [k |-> "null", n |-> 0]

Max(S) == CHOOSE x \in S : \A y \in S : y <= x
Min(a, b) == IF a <= b THEN a ELSE b

RECURSIVE SumSeq(_)
SumSeq(s) == IF s = <<>> THEN 0 ELSE Head(s) + SumSeq(Tail(s))

----------------------------------------------------------------------------
(* The engine: tables, column definitions, rows *)

ConstraintWords == {"PRIMARY", "KEY", "NOT", "NULL", "UNIQUE", "DEFAULT"}

\* The declared type of a column definition: the tokens before the first
\* column constraint.
RECURSIVE TypeName(_)
TypeName(tokens) ==
    IF tokens = <<>> \/ Head(tokens) \in ConstraintWords THEN <<>>
    ELSE <<Head(tokens)>> \o TypeName(Tail(tokens))

IsPrimaryKey(tokens) ==
    \E i \in 1..Len(tokens) : tokens[i] = "PRIMARY" /\ i < Len(tokens) /\ tokens[i + 1] = "KEY"

\* What the engine keeps of "name type-tokens" in a CREATE TABLE statement.
ColumnDef(c) == [name |-> c.name, type |-> TypeName(c.type), pk |-> IsPrimaryKey(c.type)]

HasTable(d, tn) == \E i \in 1..Len(d) : d[i].name = tn
TableIndex(d, tn) == CHOOSE i \in 1..Len(d) : d[i].name = tn
GetTable(d, tn) == d[TableIndex(d, tn)]
ColNames(tab) == {tab.cols[i].name : i \in 1..Len(tab.cols)}
RowIds(tab) == {tab.rows[i].rowid : i \in 1..Len(tab.rows)}
PkCols(tab) == {tab.cols[i].name : i \in {j \in 1..Len(tab.cols) : tab.cols[j].pk}}
ColOf(tab, cn) == tab.cols[CHOOSE i \in 1..Len(tab.cols) : tab.cols[i].name = cn]

\* Column affinity applied to a value on storage: an INTEGER column turns a
\* numeric text into the integer, a TEXT column turns an integer into its text.
Affinity(type, v) ==
    IF type = <<"INTEGER">> /\ v.k = "text" /\ v.n >= 1 THEN IntV(v.n)
    ELSE IF type = <<"TEXT">> /\ v.k = "int" THEN TxtV(v.n)
    ELSE v

\* rows stay in rowid order: the table b-tree is keyed by rowid
InsertSorted(rows, r) ==
    SelectSeq(rows, LAMBDA x : x.rowid < r.rowid) \o <<r>>
        \o SelectSeq(rows, LAMBDA x : x.rowid > r.rowid)

ReplaceTable(d, tn, tab) == [i \in 1..Len(d) |-> IF d[i].name = tn THEN tab ELSE d[i]]
RemoveTable(d, tn) == SelectSeq(d, LAMBDA x : x.name # tn)

----------------------------------------------------------------------------
(* Statements.  The SQL text handed to cursor.execute is modelled by what   *)
(* the engine parses out of it.                                             *)

NoWhere == [kind |-> "none", k |-> 0]
RowidGe(k) == [kind |-> "rowid_ge", k |-> k]       \* "rowid >= k"
BadWhere == [kind |-> "bad", k |-> 0]              \* text that is no predicate

Stmt0 ==
    [kind |-> "bad", table |-> "", ine |-> FALSE, cols |-> <<>>, data |-> <<>>,
     rowid |-> 0, where |-> NoWhere, haslimit |-> FALSE, limit |-> 0, offset |-> 0]

BadSql == Stmt0
SelectAll(tn) == [Stmt0 EXCEPT !.kind = "select", !.table = tn]
SelectPage(tn, w, l, o) ==
    [Stmt0 EXCEPT !.kind = "select", !.table = tn, !.where = w,
                  !.haslimit = TRUE, !.limit = l, !.offset = o]
SelectCount(tn, w) == [Stmt0 EXCEPT !.kind = "count", !.table = tn, !.where = w]
SelectMaster == [Stmt0 EXCEPT !.kind = "master"]
PragmaTableInfo(tn) == [Stmt0 EXCEPT !.kind = "pragma", !.table = tn]
CreateStmt(tn, cols, ine) ==
    [Stmt0 EXCEPT !.kind = "create", !.table = tn, !.cols = cols, !.ine = ine]
InsertStmt(tn, data) == [Stmt0 EXCEPT !.kind = "insert", !.table = tn, !.data = data]
DeleteStmt(tn, k) == [Stmt0 EXCEPT !.kind = "delete", !.table = tn, !.rowid = k]
DropStmt(tn) == [Stmt0 EXCEPT !.kind = "drop", !.table = tn]

\* what one statement gives back to the cursor that ran it
Exec0(d) ==
    [db |-> d, exc |-> "none", rows |-> <<>>, rowcount |-> -1, lastrowid |-> 0,
     count |-> 0, names |-> <<>>, info |-> <<>>]
EngineError(d) == [Exec0(d) EXCEPT !.exc = "sqlite"]

Matches(row, w) == w.kind = "none" \/ (w.kind = "rowid_ge" /\ row.rowid >= w.k)

\* LIMIT l OFFSET o: a negative limit means no limit, a negative offset means 0
Window(rows, l, o) ==
    LET off == IF o < 0 THEN 0 ELSE o
        lim == IF l < 0 THEN Len(rows) ELSE l
        hi == Min(Len(rows), off + lim)
    IN IF off >= hi THEN <<>> ELSE SubSeq(rows, off + 1, hi)

ExecCreate(d, s) ==
    IF s.cols = <<>> THEN EngineError(d)                       \* syntax error near ")"
    ELSE IF HasTable(d, s.table)
         THEN IF s.ine THEN Exec0(d) ELSE EngineError(d)       \* table already exists
    ELSE IF Cardinality({s.cols[i].name : i \in 1..Len(s.cols)}) < Len(s.cols)
         THEN EngineError(d)                                   \* duplicate column name
    ELSE IF Cardinality({i \in 1..Len(s.cols) : IsPrimaryKey(s.cols[i].type)}) > 1
         THEN EngineError(d)                                   \* more than one primary key
    ELSE [Exec0(d) EXCEPT !.db =
            Append(d, [name |-> s.table,
                       cols |-> [i \in 1..Len(s.cols) |-> ColumnDef(s.cols[i])],
                       rows |-> <<>>])]

\* the value an INSERT binds to column cn: the parameter given for it, or NULL
BoundValue(s, cn) ==
    IF \E i \in 1..Len(s.data) : s.data[i].col = cn
    THEN s.data[CHOOSE i \in 1..Len(s.data) : s.data[i].col = cn].val
    ELSE Null

StoredValue(tab, s, cn) == Affinity(ColOf(tab, cn).type, BoundValue(s, cn))

\* the value bound to the INTEGER PRIMARY KEY column, NULL when there is none
InsertKey(tab, s) ==
    IF PkCols(tab) = {} THEN Null ELSE StoredValue(tab, s, CHOOSE cn \in PkCols(tab) : TRUE)

\* the rowid the engine assigns when the statement gives none
AutoRowid(tab) == IF tab.rows = <<>> THEN 1 ELSE Max(RowIds(tab)) + 1

InsertRow(d, s, tab, rid) ==
    IF rid \in RowIds(tab) THEN EngineError(d)                 \* UNIQUE constraint failed
    ELSE [Exec0(d) EXCEPT
            !.db = ReplaceTable(d, s.table,
                     [tab EXCEPT !.rows = InsertSorted(tab.rows,
                        [rowid |-> rid,
                         vals |-> [cn \in ColNames(tab) |->
                                     IF cn \in PkCols(tab) THEN IntV(rid)
                                     ELSE StoredValue(tab, s, cn)]])]),
            !.rowcount = 1, !.lastrowid = rid]

InsertKeyed(d, s, tab, key) ==
    IF ~({s.data[i].col : i \in 1..Len(s.data)} \subseteq ColNames(tab))
    THEN EngineError(d)                                        \* no column named ...
    ELSE IF key.k = "text" THEN EngineError(d)                 \* datatype mismatch
    ELSE InsertRow(d, s, tab, IF key.k = "int" THEN key.n ELSE AutoRowid(tab))

InsertInto(d, s, tab) == InsertKeyed(d, s, tab, InsertKey(tab, s))

ExecInsert(d, s) ==
    IF s.data = <<>> THEN EngineError(d)                       \* "INSERT INTO t () VALUES ()"
    ELSE IF ~HasTable(d, s.table) THEN EngineError(d)          \* no such table
    ELSE InsertInto(d, s, GetTable(d, s.table))

DeleteFrom(d, s, tab, keep) ==
    [Exec0(d) EXCEPT !.db = ReplaceTable(d, s.table, [tab EXCEPT !.rows = keep]),
                     !.rowcount = Len(tab.rows) - Len(keep)]

ExecDelete(d, s) ==
    IF ~HasTable(d, s.table) THEN EngineError(d)
    ELSE DeleteFrom(d, s, GetTable(d, s.table),
                    SelectSeq(GetTable(d, s.table).rows, LAMBDA r : r.rowid # s.rowid))

ExecDrop(d, s) ==
    IF ~HasTable(d, s.table) THEN EngineError(d)
    ELSE [Exec0(d) EXCEPT !.db = RemoveTable(d, s.table)]

SelectFrom(d, s, hit) ==
    IF s.kind = "count" THEN [Exec0(d) EXCEPT !.count = Len(hit)]
    ELSE [Exec0(d) EXCEPT !.rows = IF s.haslimit THEN Window(hit, s.limit, s.offset) ELSE hit]

ExecSelect(d, s) ==
    IF ~HasTable(d, s.table) \/ s.where.kind = "bad" THEN EngineError(d)
    ELSE SelectFrom(d, s, SelectSeq(GetTable(d, s.table).rows, LAMBDA r : Matches(r, s.where)))

\* the engine running one statement against the content d
Execute(d, s) ==
    CASE s.kind = "create" -> ExecCreate(d, s)
      [] s.kind = "insert" -> ExecInsert(d, s)
      [] s.kind = "delete" -> ExecDelete(d, s)
      [] s.kind = "drop" -> ExecDrop(d, s)
      [] s.kind \in {"select", "count"} -> ExecSelect(d, s)
      [] s.kind = "master" -> [Exec0(d) EXCEPT !.names = [i \in 1..Len(d) |-> d[i].name]]
      [] s.kind = "pragma" ->
            [Exec0(d) EXCEPT !.info = IF HasTable(d, s.table) THEN GetTable(d, s.table).cols
                                      ELSE <<>>]
      [] OTHER -> EngineError(d)                               \* syntax error

----------------------------------------------------------------------------
(* sqlite3 connections.  file is the committed content, view is what the    *)
(* connection sees (its uncommitted changes included).                      *)

BadDirPath == "/nodir/database.db"    \* a path the engine cannot open
NotAStr == "<int>"                    \* an argument that is not a string
DbPaths == {DEFAULT_DB_PATH, BadDirPath, NotAStr}

\* sqlite3.connect: OperationalError for a file it cannot open, TypeError for a
\* path that is no string
get_db_connection(db_path, d) ==
    [exc |-> CASE db_path = DEFAULT_DB_PATH -> "none"
               [] db_path = BadDirPath -> "sqlite"
               [] OTHER -> "other",
     conn |-> [file |-> d, view |-> d, intx |-> FALSE]]

\* the connection after a statement ran: INSERT/DELETE open a transaction
\* implicitly, other statements run in autocommit mode when no transaction is
\* open; a failing statement leaves no change behind
AfterStatement(c, s, r) ==
    [res |-> r,
     conn |-> IF r.exc # "none" THEN c
              ELSE IF s.kind \in {"insert", "delete"} THEN [c EXCEPT !.view = r.db, !.intx = TRUE]
              ELSE IF c.intx THEN [c EXCEPT !.view = r.db]
              ELSE [c EXCEPT !.view = r.db, !.file = r.db]]

\* cursor.execute: TypeError for a statement that is no string
CursorExecute(c, q) ==
    IF ~q.isstr THEN [res |-> [Exec0(c.view) EXCEPT !.exc = "other"], conn |-> c]
    ELSE AfterStatement(c, q.stmt, Execute(c.view, q.stmt))

\* variant: the open transaction is ended without writing its changes
CommitNothing(c) == [file |-> c.file, view |-> c.file, intx |-> FALSE]

\* conn.commit(): the changes the connection made become the content of the file
Commit(c) == [file |-> c.view, view |-> c.view, intx |-> FALSE]
Rollback(c) == [file |-> c.file, view |-> c.file, intx |-> FALSE]

\* Connection.__exit__: commit when the block ended normally, roll back when it
\* raised.  It does not close the connection.
ConnExit(c, exc) == IF exc = "none" THEN Commit(c) ELSE Rollback(c)

----------------------------------------------------------------------------
(* Arguments and results of the tools *)

Str(s) == [isstr |-> TRUE, stmt |-> s]
NotAQuery == [isstr |-> FALSE, stmt |-> Stmt0]
Dict(items) == [isdict |-> TRUE, items |-> items]
NotADict == [isdict |-> FALSE, items |-> <<>>]

\* the result of a call; fault and had are history: the class of the exception
\* raised inside the call, and the columns the named table had before it
Res0 ==
    [op |-> "", outcome |-> "returned", success |-> FALSE, error |-> "", fault |-> "none",
     db_path |-> DEFAULT_DB_PATH, query |-> NotAQuery, table |-> "", columns |-> NotADict,
     data |-> NotADict, rows |-> <<>>, row_count |-> 0, total_rows |-> 0, row_id |-> 0,
     affected_rows |-> 0, limit |-> 0, offset |-> 0, where |-> NoWhere,
     schema |-> <<>>, backup |-> <<>>, backup_path |-> "", seen |-> {}, had |-> <<>>]

\* variant: only the "except sqlite3.Error" clause, any other exception escapes
CatchEngineOnly(r0, exc) ==
    IF exc = "sqlite"
    THEN [r0 EXCEPT !.success = FALSE, !.error = "SQLite error", !.fault = exc]
    ELSE [r0 EXCEPT !.outcome = "raised", !.fault = exc]

\* the "except sqlite3.Error" and "except Exception" clauses of the six tools
\* that have both
Catch(r0, exc) ==
    [r0 EXCEPT !.success = FALSE, !.fault = exc,
               !.error = IF exc = "sqlite" THEN "SQLite error" ELSE "Unexpected error"]

\* the single "except Exception" clause of backup_database
BackupCatch(r0, exc) ==
    [r0 EXCEPT !.success = FALSE, !.fault = exc, !.error = "Backup error"]

\* [dict(row) for row in rows]
Dicts(rows) == [i \in 1..Len(rows) |-> rows[i].vals]

\* "with get_db_connection(db_path) as conn:" around one statement, with or
\* without conn.commit() after it: the exception raised (if any), the file
\* after the block was left, and whether a connection was opened
LeaveWith(x, commit) ==
    [exc |-> x.res.exc, opened |-> TRUE, res |-> x.res,
     file |-> ConnExit(IF commit /\ x.res.exc = "none" THEN Commit(x.conn) ELSE x.conn,
                       x.res.exc).file]

WithConnection(cn, q, commit) ==
    IF cn.exc # "none"
    THEN [exc |-> cn.exc, opened |-> FALSE, res |-> Exec0(cn.conn.file), file |-> cn.conn.file]
    ELSE LeaveWith(CursorExecute(cn.conn, q), commit)

QueryReturn(r0, w) ==
    [db |-> w.file, opened |-> w.opened,
     res |-> IF w.exc # "none" THEN Catch(r0, w.exc)
             ELSE [r0 EXCEPT !.success = TRUE, !.rows = Dicts(w.res.rows),
                             !.row_count = Len(w.res.rows)]]

execute_query(query, db_path, d) ==
    QueryReturn([Res0 EXCEPT !.op = "execute_query", !.query = query, !.db_path = db_path],
                WithConnection(get_db_connection(db_path, d), query, FALSE))

ModificationReturn(r0, w) ==
    [db |-> w.file, opened |-> w.opened,
     res |-> IF w.exc # "none" THEN Catch(r0, w.exc)
             ELSE [r0 EXCEPT !.success = TRUE, !.affected_rows = w.res.rowcount,
                             !.row_id = w.res.lastrowid]]

execute_modification(query, db_path, d) ==
    ModificationReturn([Res0 EXCEPT !.op = "execute_modification", !.query = query,
                                    !.db_path = db_path],
                       WithConnection(get_db_connection(db_path, d), query, TRUE))

CreateReturn(r0, w) ==
    [db |-> w.file, opened |-> w.opened,
     res |-> IF w.exc # "none" THEN Catch(r0, w.exc) ELSE [r0 EXCEPT !.success = TRUE]]

CreateContext(table_name, columns, db_path, d) ==
    [Res0 EXCEPT !.op = "create_table", !.table = table_name, !.columns = columns,
                 !.db_path = db_path,
                 !.had = IF HasTable(d, table_name) THEN GetTable(d, table_name).cols
                         ELSE <<>>]

\* variant: "CREATE TABLE name (col type, ...)"
CreateSqlPlain(table_name, columns) == CreateStmt(table_name, columns.items, FALSE)

\* create_sql: "CREATE TABLE IF NOT EXISTS name (col type, ...)"
CreateSql(table_name, columns) == CreateStmt(table_name, columns.items, TRUE)

create_table(table_name, columns, db_path, d) ==
    IF ~columns.isdict
    THEN [db |-> d, opened |-> FALSE,
          res |-> Catch(CreateContext(table_name, columns, db_path, d), "other")]
    ELSE CreateReturn(CreateContext(table_name, columns, db_path, d),
                      WithConnection(get_db_connection(db_path, d),
                                     Str(CreateSql(table_name, columns)), TRUE))

\* variant: "type" read from col[1], the column of table_info that holds the name
SchemaColumnWrongIndex(col) ==
    [name |-> col.name, type |-> <<col.name>>, primary_key |-> col.pk]

\* one entry of schema_info["tables"][table]["columns"], from a PRAGMA table_info row
SchemaColumn(col) == [name |-> col.name, type |-> col.type, primary_key |-> col.pk]

TableSchema(c, table) ==
    [table |-> table,
     columns |-> [j \in 1..Len(CursorExecute(c, Str(PragmaTableInfo(table))).res.info) |->
                    SchemaColumn(CursorExecute(c, Str(PragmaTableInfo(table))).res.info[j])],
     column_count |-> Len(CursorExecute(c, Str(PragmaTableInfo(table))).res.info)]

SchemaReturn(r0, w, c) ==
    [db |-> w.file, opened |-> w.opened,
     res |-> IF w.exc # "none" THEN Catch(r0, w.exc)
             ELSE [r0 EXCEPT !.success = TRUE, !.row_count = Len(w.res.names),
                             !.schema = [i \in 1..Len(w.res.names) |->
                                            TableSchema(c, w.res.names[i])]]]

get_schema(db_path, d) ==
    SchemaReturn([Res0 EXCEPT !.op = "get_schema", !.db_path = db_path],
                 WithConnection(get_db_connection(db_path, d), Str(SelectMaster), FALSE),
                 get_db_connection(db_path, d).conn)

\* variant: "row_id" taken from cursor.rowcount
InsertReturnRowcount(r0, w) ==
    [db |-> w.file, opened |-> w.opened,
     res |-> IF w.exc # "none" THEN Catch(r0, w.exc)
             ELSE [r0 EXCEPT !.success = TRUE, !.row_id = w.res.rowcount]]

\* the result of insert_data: row_id is cursor.lastrowid
InsertReturn(r0, w) ==
    [db |-> w.file, opened |-> w.opened,
     res |-> IF w.exc # "none" THEN Catch(r0, w.exc)
             ELSE [r0 EXCEPT !.success = TRUE, !.row_id = w.res.lastrowid]]

InsertContext(table_name, data, db_path) ==
    [Res0 EXCEPT !.op = "insert_data", !.table = table_name, !.data = data,
                 !.db_path = db_path]

insert_data(table_name, data, db_path, d) ==
    IF ~data.isdict
    THEN [db |-> d, opened |-> FALSE,
          res |-> Catch(InsertContext(table_name, data, db_path), "other")]
    ELSE InsertReturn(InsertContext(table_name, data, db_path),
                      WithConnection(get_db_connection(db_path, d),
                                     Str(InsertStmt(table_name, data.items)), TRUE))

\* variant: "LIMIT {offset} OFFSET {limit}"
PageQuerySwapped(table_name, where_clause, limit, offset) ==
    SelectPage(table_name, where_clause, offset, limit)

\* query: "SELECT * FROM table [WHERE w] LIMIT limit OFFSET offset"
PageQuery(table_name, where_clause, limit, offset) ==
    SelectPage(table_name, where_clause, limit, offset)

\* variant: "returned_rows" taken from the count query
PageReturnTotal(r0, w, y, limit, offset, where_clause) ==
    [db |-> w.file, opened |-> w.opened,
     res |-> IF w.exc # "none" THEN Catch(r0, w.exc)
             ELSE IF y.res.exc # "none" THEN Catch(r0, y.res.exc)
             ELSE [r0 EXCEPT !.success = TRUE, !.rows = Dicts(w.res.rows),
                             !.row_count = y.res.count,
                             !.total_rows = y.res.count,
                             !.limit = limit, !.offset = offset, !.where = where_clause]]

\* the page query, then the count query on the same connection
PageReturn(r0, w, y, limit, offset, where_clause) ==
    [db |-> w.file, opened |-> w.opened,
     res |-> IF w.exc # "none" THEN Catch(r0, w.exc)
             ELSE IF y.res.exc # "none" THEN Catch(r0, y.res.exc)
             ELSE [r0 EXCEPT !.success = TRUE, !.rows = Dicts(w.res.rows),
                             !.row_count = Len(Dicts(w.res.rows)),
                             !.total_rows = y.res.count,
                             !.limit = limit, !.offset = offset, !.where = where_clause]]

get_table_data(table_name, limit, offset, where_clause, db_path, d) ==
    PageReturn([Res0 EXCEPT !.op = "get_table_data", !.table = table_name,
                            !.db_path = db_path],
               WithConnection(get_db_connection(db_path, d),
                              Str(PageQuery(table_name, where_clause, limit, offset)), FALSE),
               CursorExecute(get_db_connection(db_path, d).conn,
                             Str(SelectCount(table_name, where_clause))),
               limit, offset, where_clause)

----------------------------------------------------------------------------
(* backup_database, statement by statement.  b is the call in progress:     *)
(* the tables still to read, the rows recorded so far, and (history) every  *)
(* content the database file had while the call ran.                        *)

NoBackupPath == ""                        \* backup_path left out: a name is derived
DefaultBackupPath == "backup_<timestamp>.json"
BadBackupPath == "/nodir/backup.json"     \* a file that cannot be opened for writing
BackupPaths == {NoBackupPath, BadBackupPath}

Bk0 ==
    [pc |-> "idle", opened |-> FALSE, todo |-> <<>>, data |-> <<>>, seen |-> {},
     res |-> Res0]

BackupListed(r0, cn, x, d) ==
    IF cn.exc # "none"
    THEN [Bk0 EXCEPT !.pc = "done", !.seen = {d}, !.res = BackupCatch(r0, cn.exc)]
    ELSE [Bk0 EXCEPT !.pc = IF x.res.names = <<>> THEN "write" ELSE "read",
                     !.opened = TRUE, !.todo = x.res.names, !.seen = {d}, !.res = r0]

\* lines 386-401: default path, connect, list the tables
BackupBegin(db_path, backup_path, d) ==
    BackupListed([Res0 EXCEPT !.op = "backup_database", !.db_path = db_path,
                              !.backup_path = IF backup_path = NoBackupPath
                                              THEN DefaultBackupPath ELSE backup_path],
                 get_db_connection(db_path, d),
                 CursorExecute(get_db_connection(db_path, d).conn, Str(SelectMaster)), d)

BackupRecord(b, table, x) ==
    IF x.res.exc # "none"
    THEN [b EXCEPT !.pc = "done", !.res = BackupCatch(b.res, x.res.exc)]
    ELSE [b EXCEPT !.pc = IF Tail(b.todo) = <<>> THEN "write" ELSE "read",
                   !.todo = Tail(b.todo),
                   !.data = Append(b.data, [table |-> table, data |-> Dicts(x.res.rows),
                                            row_count |-> Len(x.res.rows)])]

\* lines 404-411: SELECT * FROM the next table, against the file as it is now
BackupRead(b, d) ==
    BackupRecord(b, Head(b.todo),
                 CursorExecute([file |-> d, view |-> d, intx |-> FALSE],
                               Str(SelectAll(Head(b.todo)))))

\* lines 413-424: write the file, build the result
BackupWrite(b) ==
    IF b.res.backup_path = BadBackupPath
    THEN [b EXCEPT !.pc = "done", !.res = BackupCatch(b.res, "other")]
    ELSE [b EXCEPT !.pc = "done",
                   !.res = [b.res EXCEPT
                       !.success = TRUE, !.backup = b.data, !.seen = b.seen,
                       !.row_count = Len(b.data),
                       !.total_rows = SumSeq([i \in 1..Len(b.data) |-> b.data[i].row_count])]]

BackupStep(b, d) == IF b.pc = "read" THEN BackupRead(b, d) ELSE BackupWrite(b)

RECURSIVE BackupRun(_, _)
BackupRun(b, d) == IF b.pc = "done" THEN b ELSE BackupRun(BackupStep(b, d), d)

BackupReturn(b, d) == [db |-> d, opened |-> b.opened, res |-> b.res]

\* the whole call when nothing else runs in between
backup_database(db_path, backup_path, d) ==
    BackupReturn(BackupRun(BackupBegin(db_path, backup_path, d), d), d)

----------------------------------------------------------------------------
(* Inputs the callers draw from *)

BadPaths == {BadDirPath, NotAStr}

ColsPk == <<[name |-> "id", type |-> <<"INTEGER", "PRIMARY", "KEY">>],
            [name |-> "v", type |-> <<"TEXT">>]>>
ColsPlain == <<[name |-> "v", type |-> <<"TEXT">>], [name |-> "n", type |-> <<"INTEGER">>]>>
ColumnMaps == {ColsPk, ColsPlain}
ColumnArgs == {Dict(m) : m \in ColumnMaps \cup {<<>>}} \cup {NotADict}

RecText == <<[col |-> "v", val |-> TxtV(0)]>>
RecInt == <<[col |-> "v", val |-> IntV(1)]>>
RecId(k) == <<[col |-> "id", val |-> IntV(k)], [col |-> "v", val |-> IntV(1)]>>
RecBadKey == <<[col |-> "id", val |-> TxtV(0)]>>

\* a call with the default database path, or one call with each bad path
WithPaths(args, arg0) ==
    {<<a, DEFAULT_DB_PATH>> : a \in args} \cup {<<arg0, p>> : p \in BadPaths}

----------------------------------------------------------------------------
(* The calls, one at a time *)

\* history of insert_data row ids: set by a successful insert_data, forgotten
\* when the table is dropped
LastRowIdAfter(r) ==
    IF r.res.op = "insert_data" /\ r.res.success
    THEN [lastRowId EXCEPT ![r.res.table] = r.res.row_id]
    ELSE IF r.res.op \in {"execute_query", "execute_modification"} /\ r.res.success
            /\ r.res.query.stmt.kind = "drop"
    THEN [lastRowId EXCEPT ![r.res.query.stmt.table] = 0]
    ELSE lastRowId

\* the state of the connection a call leaves behind when it returns: the
\* "with" block has committed or rolled back, nothing has closed the connection
ConnAtReturn(opened) == IF opened THEN "open" ELSE "none"

\* history kept by the running backup: every content the file has while it runs
Observe(b, d) == IF b.pc \in {"read", "write"} THEN [b EXCEPT !.seen = @ \cup {d}] ELSE b

\* the bound on the database a specification explores: at most MaxRows rows in
\* all, or (large) at most MaxExtra rows more than the empty or the nearly
\* full table
WithinBounds(d) == SumSeq([i \in 1..Len(d) |-> Len(d[i].rows)]) <= MaxRows

RowsBound(d) ==
    \A i \in 1..Len(d) :
        \/ Len(d[i].rows) <= MaxExtra
        \/ Len(d[i].rows) \in (DefaultLimit - 1)..(DefaultLimit - 1 + MaxExtra)

Bounded(large, d) == IF large THEN RowsBound(d) ELSE WithinBounds(d)

\* the history lastRowId is kept only where a property reads it
History(keep, r) == IF keep THEN LastRowIdAfter(r) ELSE lastRowId

\* Each call returns: the file holds what the call committed, the caller holds
\* the result, and the connection is in the state the call left it in.
\* large chooses the bound on the size of the database, keep the history.

Call_execute_query(calls, large, keep) ==
    \E c \in calls :
        \E r \in {execute_query(c[1], c[2], db)} :
           /\ Bounded(large, r.db)
           /\ db' = r.db
           /\ last' = r.res
           /\ conn' = ConnAtReturn(r.opened)
           /\ lastRowId' = History(keep, r)
           /\ bk' = Observe(bk, r.db)

Call_execute_modification(calls, large, keep) ==
    \E c \in calls :
        \E r \in {execute_modification(c[1], c[2], db)} :
           /\ Bounded(large, r.db)
           /\ db' = r.db
           /\ last' = r.res
           /\ conn' = ConnAtReturn(r.opened)
           /\ lastRowId' = History(keep, r)
           /\ bk' = Observe(bk, r.db)

Call_create_table(calls, large) ==
    \E c \in calls :
        \E r \in {create_table(c[1][1], c[1][2], c[2], db)} :
           /\ Bounded(large, r.db)
           /\ db' = r.db
           /\ last' = r.res
           /\ conn' = ConnAtReturn(r.opened)
           /\ lastRowId' = lastRowId
           /\ bk' = Observe(bk, r.db)

Call_get_schema ==
    \E p \in DbPaths :
        \E r \in {get_schema(p, db)} :
           /\ db' = r.db
           /\ last' = r.res
           /\ conn' = ConnAtReturn(r.opened)
           /\ lastRowId' = lastRowId
           /\ bk' = Observe(bk, r.db)

Call_insert_data(calls, large, keep) ==
    \E c \in calls :
        \E r \in {insert_data(c[1][1], c[1][2], c[2], db)} :
           /\ Bounded(large, r.db)
           /\ db' = r.db
           /\ last' = r.res
           /\ conn' = ConnAtReturn(r.opened)
           /\ lastRowId' = History(keep, r)
           /\ bk' = Observe(bk, r.db)

Call_get_table_data(calls) ==
    \E c \in calls :
        \E r \in {get_table_data(c[1][1], c[1][2], c[1][3], c[1][4], c[2], db)} :
           /\ db' = r.db
           /\ last' = r.res
           /\ conn' = ConnAtReturn(r.opened)
           /\ lastRowId' = lastRowId
           /\ bk' = Observe(bk, r.db)

Call_backup_database ==
    \E c \in WithPaths(BackupPaths, NoBackupPath) :
        \E r \in {backup_database(c[2], c[1], db)} :
           /\ db' = r.db
           /\ last' = r.res
           /\ conn' = ConnAtReturn(r.opened)
           /\ lastRowId' = lastRowId
           /\ bk' = Observe(bk, r.db)

\* the interpreter reclaims a connection object nobody refers to any more,
\* which closes it; when that happens is up to the interpreter
CollectConnection ==
    /\ conn = "open"
    /\ conn' = "closed"
    /\ UNCHANGED <<db, last, lastRowId, bk>>

----------------------------------------------------------------------------
(* Spec: the seven tools called one at a time on a fresh database file *)

Statements ==
    {BadSql}
    \cup {SelectAll(tn) : tn \in TableNames}
    \cup {InsertStmt(tn, RecText) : tn \in TableNames}
    \cup {DeleteStmt(tn, 1) : tn \in TableNames}
    \cup {DropStmt(tn) : tn \in TableNames}
    \cup {CreateStmt(tn, ColsPlain, FALSE) : tn \in TableNames}
Queries == {Str(s) : s \in Statements} \cup {NotAQuery}
QueryCalls == WithPaths(Queries, Str(BadSql))

CreateCalls == WithPaths(TableNames \X ColumnArgs, <<"t", Dict(ColsPlain)>>)

DataArgs == {Dict(RecText), Dict(RecId(1)), Dict(<<>>), NotADict}
InsertCalls == WithPaths(TableNames \X DataArgs, <<"t", Dict(RecText)>>)

PageCalls ==
    WithPaths({<<tn, DefaultLimit, DefaultOffset, w>> : tn \in TableNames,
                                                        w \in {NoWhere, BadWhere}},
              <<"t", DefaultLimit, DefaultOffset, NoWhere>>)

Init ==
    /\ db = <<>>
    /\ last = Res0
    /\ conn = "none"
    /\ lastRowId = [tn \in TableNames |-> 0]
    /\ bk = Bk0

Next ==
    \/ Call_execute_query(QueryCalls, FALSE, FALSE)
    \/ Call_execute_modification(QueryCalls, FALSE, FALSE)
    \/ Call_create_table(CreateCalls, FALSE)
    \/ Call_get_schema
    \/ Call_insert_data(InsertCalls, FALSE, FALSE)
    \/ Call_get_table_data(PageCalls)
    \/ Call_backup_database
    \/ CollectConnection

Spec == Init /\ [][Next]_vars

----------------------------------------------------------------------------
(* SpecRows: inserting into, deleting from and paging through one table     *)
(* that may already hold about DefaultLimit rows                            *)

\* the table tn as create_table(tn, ColsPk) followed by n insert_data(tn, RecInt)
\* leave it
Filled(tn, n) ==
    [name |-> tn,
     cols |-> [i \in 1..Len(ColsPk) |-> ColumnDef(ColsPk[i])],
     rows |-> [i \in 1..n |-> [rowid |-> i, vals |-> [cn \in {"id", "v"} |->
                                  IF cn = "id" THEN IntV(i) ELSE TxtV(1)]]]]

PreRows == {0, DefaultLimit - 1}

RowsInsertCalls ==
    {<<<<"t", a>>, DEFAULT_DB_PATH>> :
        a \in {Dict(RecInt), Dict(RecBadKey)} \cup {Dict(RecId(k)) : k \in 1..MaxId}}

RowsDeleteCalls == {<<Str(DeleteStmt("t", k)), DEFAULT_DB_PATH>> : k \in 1..MaxId}

Limits == {-1, 0, 1, DefaultLimit}
Offsets == {-1, DefaultOffset, 1}
RowsPageCalls ==
    {<<<<"t", l, o, NoWhere>>, DEFAULT_DB_PATH>> : l \in Limits, o \in Offsets}
    \cup {<<<<"t", DefaultLimit, DefaultOffset, w>>, DEFAULT_DB_PATH>> : w \in {RowidGe(2), BadWhere}}

InitRows ==
    /\ db \in {<<Filled("t", n)>> : n \in PreRows}
    /\ last = Res0
    /\ conn = "none"
    /\ lastRowId = [tn \in TableNames |-> 0]
    /\ bk = Bk0

NextRows ==
    \/ Call_insert_data(RowsInsertCalls, TRUE, TRUE)
    \/ Call_execute_modification(RowsDeleteCalls, TRUE, TRUE)
    \/ Call_get_table_data(RowsPageCalls)
    \/ CollectConnection

SpecRows == InitRows /\ [][NextRows]_vars

----------------------------------------------------------------------------
(* SpecConc: a backup_database call that runs statement by statement while  *)
(* other calls, each on its own connection, write to the same file          *)

BackupCall ==
    /\ bk.pc = "idle"
    /\ \E c \in WithPaths(BackupPaths, NoBackupPath) : bk' = BackupBegin(c[2], c[1], db)
    /\ UNCHANGED <<db, last, conn, lastRowId>>

BackupAdvance ==
    /\ bk.pc \in {"read", "write"}
    /\ bk' = BackupStep(bk, db)
    /\ UNCHANGED <<db, last, conn, lastRowId>>

BackupDone ==
    /\ bk.pc = "done"
    /\ last' = bk.res
    /\ conn' = ConnAtReturn(bk.opened)
    /\ bk' = Bk0
    /\ UNCHANGED <<db, lastRowId>>

ConcInsertCalls == {<<<<tn, Dict(RecText)>>, DEFAULT_DB_PATH>> : tn \in TableNames}
ConcDeleteCalls == {<<Str(DeleteStmt(tn, 1)), DEFAULT_DB_PATH>> : tn \in TableNames}

\* two empty tables, as create_table leaves them
InitConc ==
    /\ db = <<Filled("t", 0), Filled("u", 0)>>
    /\ last = Res0
    /\ conn = "none"
    /\ lastRowId = [tn \in TableNames |-> 0]
    /\ bk = Bk0

NextConc ==
    \/ BackupCall
    \/ BackupAdvance
    \/ BackupDone
    \/ Call_insert_data(ConcInsertCalls, FALSE, FALSE)
    \/ Call_execute_modification(ConcDeleteCalls, FALSE, FALSE)
    \/ CollectConnection

SpecConc == InitConc /\ [][NextConc]_vars

----------------------------------------------------------------------------
(* Properties.  Unless said otherwise a property is about the state between *)
(* calls: last is the call that has just returned, db the file it left.     *)

Returned(op) == last.op = op /\ last.outcome = "returned"

\* C1: every connection an operation opens is released before the operation
\* returns, on the success path and on every failure path: no state between
\* calls holds a connection that is still open.
C1_ConnectionsReleased == conn # "open"

\* C2: execute_query is read-only: a call of execute_query leaves the database
\* file as it was, and a statement that writes (INSERT, DELETE, DROP, CREATE)
\* given to it is reported as a failure.
WritingKinds == {"insert", "delete", "drop", "create"}
C2_QueryReadOnly ==
    [][last'.op = "execute_query" =>
          /\ db' = db
          /\ (last'.query.isstr /\ last'.query.stmt.kind \in WritingKinds
                 => ~last'.success)]_vars

\* what getSchema reports for table tn: the names and declared types of cols,
\* in that order
SchemaReports(res, tn, cols) ==
    /\ res.success
    /\ \E i \in 1..Len(res.schema) :
          /\ res.schema[i].table = tn
          /\ [j \in 1..Len(res.schema[i].columns) |->
                 <<res.schema[i].columns[j].name, res.schema[i].columns[j].type>>]
             = [j \in 1..Len(cols) |-> <<cols[j].name, TypeName(cols[j].type)>>]

SchemaAfterCreate ==
    SchemaReports(get_schema(DEFAULT_DB_PATH, db).res, last.table, last.columns.items)

\* C3 as stated: after a successful create_table(tableName, columns), for every
\* prior state of the database, get_schema reports tableName with exactly the
\* supplied columns, in the supplied order, each with its supplied declared type.
C3_SchemaAfterCreateAlways ==
    Returned("create_table") /\ last.success => SchemaAfterCreate

\* C3: after a successful create_table(tableName, columns) on a database where
\* tableName did not exist, or existed with the same column definitions,
\* get_schema reports tableName with exactly the supplied columns, in the
\* supplied order, each with the type name of its supplied definition.
C3_SchemaAfterCreate ==
    /\ Returned("create_table")
    /\ last.success
    /\ \/ last.had = <<>>
       \/ last.had = [i \in 1..Len(last.columns.items) |-> ColumnDef(last.columns.items[i])]
    => SchemaAfterCreate

C3_Witness ==
    /\ Returned("create_table")
    /\ last.success
    /\ last.had = <<>>
    /\ last.columns.items = ColsPk
    /\ Len(db) = 2
    /\ SchemaAfterCreate

\* the rows get_table_data returns with every argument but the table left at
\* its default
DefaultPage(tn) ==
    get_table_data(tn, DefaultLimit, DefaultOffset, NoWhere, DEFAULT_DB_PATH, db).res

\* a supplied value as the engine stores it in column cn of the table inserted
\* into: converted by the affinity of the column
AsStored(cn, v) == Affinity(ColOf(GetTable(db, last.table), cn).type, v)

\* the row is the one the insertion stored: every supplied column has the
\* supplied value and the integer primary key column, if any, the row id
HoldsRecord(row, items) ==
    /\ \A i \in 1..Len(items) : row[items[i].col] = AsStored(items[i].col, items[i].val)
    /\ \A cn \in PkCols(GetTable(db, last.table)) : row[cn] = IntV(last.row_id)

InsertedRowReturned ==
    /\ DefaultPage(last.table).success
    /\ \E i \in 1..Len(DefaultPage(last.table).rows) :
          HoldsRecord(DefaultPage(last.table).rows[i], last.data.items)

\* C4 as stated: after a successful insert_data(tableName, record), a
\* get_table_data(tableName) with default arguments returns that record among
\* its rows, however many rows the table holds.
C4_InsertedRowReturnedAlways ==
    Returned("insert_data") /\ last.success => InsertedRowReturned

\* C4: after a successful insert_data(tableName, record) that leaves the table
\* with at most 100 rows (the default limit), a get_table_data(tableName) with
\* default arguments returns that record among its rows.
C4_InsertedRowReturned ==
    /\ Returned("insert_data")
    /\ last.success
    /\ Len(GetTable(db, last.table).rows) <= DefaultLimit
    => InsertedRowReturned

C4_Witness ==
    /\ Returned("insert_data")
    /\ last.success
    /\ Len(GetTable(db, last.table).rows) = DefaultLimit
    /\ last.row_id = DefaultLimit
    /\ DefaultPage(last.table).rows[DefaultLimit]["id"] = IntV(last.row_id)

\* the call that has just returned is an insert_data that succeeded
Inserted == db' # db /\ last'.op = "insert_data" /\ last'.success
HadInsert == lastRowId[last'.table] # 0
SuppliesKey(d, res) ==
    \E i \in 1..Len(res.data.items) : res.data.items[i].col \in PkCols(GetTable(d, res.table))

\* C5 as stated: the row_id of a successful insert_data is strictly greater
\* than the row_id of the previous successful insert_data into the same table,
\* whatever was deleted or inserted with an explicit key in between.
C5_RowIdIncreasesAlways ==
    [][Inserted /\ HadInsert => last'.row_id > lastRowId[last'.table]]_vars

\* C5: the row_id of a successful insert_data is strictly greater than the
\* row_id of the previous successful insert_data into the same table, provided
\* the row of that previous insertion is still in the table and the new record
\* gives no value for the integer primary key column.
C5_RowIdIncreases ==
    [][/\ Inserted
       /\ HadInsert
       /\ lastRowId[last'.table] \in RowIds(GetTable(db, last'.table))
       /\ ~SuppliesKey(db, last')
       => last'.row_id > lastRowId[last'.table]]_vars

C5_Witness ==
    /\ Returned("insert_data")
    /\ last.success
    /\ ~SuppliesKey(db, last)
    /\ last.row_id = 2
    /\ lastRowId[last.table] = 2
    /\ RowIds(GetTable(db, last.table)) = {1, 2}

\* C6 as stated: a successful get_table_data with limit L returns at most L
\* rows, for every integer L (zero and negative included), and its
\* returned_rows is the number of rows returned.
C6_AtMostLimitAlways ==
    Returned("get_table_data") /\ last.success =>
        Len(last.rows) <= last.limit /\ last.row_count = Len(last.rows)

\* C6: a successful get_table_data with limit L >= 0 returns at most L rows,
\* whatever the offset, and the returned_rows of every successful
\* get_table_data is the number of rows returned.
C6_AtMostLimit ==
    Returned("get_table_data") /\ last.success =>
        /\ last.limit >= 0 => Len(last.rows) <= last.limit
        /\ last.row_count = Len(last.rows)

C6_Witness ==
    /\ Returned("get_table_data")
    /\ last.success
    /\ last.limit = 1
    /\ Len(last.rows) = 1
    /\ last.total_rows > 1

\* the backup records exactly the content d: its tables in order, every row
RecordsContent(res, d) ==
    /\ Len(res.backup) = Len(d)
    /\ \A i \in 1..Len(d) :
          /\ res.backup[i].table = d[i].name
          /\ res.backup[i].data = Dicts(d[i].rows)
          /\ res.backup[i].row_count = Len(d[i].rows)
    /\ res.total_rows = SumSeq([i \in 1..Len(d) |-> Len(d[i].rows)])

\* C7: a successful backup_database records a point-in-time snapshot: what it
\* wrote is the content the database file had at one moment while the call
\* ran, even when other calls write to the file in the meantime.
C7_BackupIsSnapshot ==
    Returned("backup_database") /\ last.success =>
        \E d \in last.seen : RecordsContent(last, d)

\* C8: create_table with the name of a table that exists already (and a
\* non-empty column map, on a database that can be opened) returns success and
\* leaves the file as it was: the table keeps its columns and rows, every
\* other table is untouched.
C8_CreateExistingIsNoop ==
    [][/\ last'.op = "create_table"
       /\ last'.db_path = DEFAULT_DB_PATH
       /\ last'.columns.isdict
       /\ last'.columns.items # <<>>
       /\ HasTable(db, last'.table)
       => last'.success /\ db' = db]_vars

C8_Witness ==
    /\ Returned("create_table")
    /\ last.success
    /\ last.had # <<>>
    /\ last.had # [i \in 1..Len(last.columns.items) |-> ColumnDef(last.columns.items[i])]
    /\ GetTable(db, last.table).cols = last.had
    /\ GetTable(db, last.table).rows # <<>>

\* C9: no operation lets a fault escape to its caller: every call returns a
\* result with a boolean success flag, and a call in which an exception was
\* raised returns success = false with an error description.
C9_EveryCallReturns ==
    last.op # "" =>
        /\ last.outcome = "returned"
        /\ last.success \in BOOLEAN
        /\ last.fault # "none" => ~last.success /\ last.error # ""
        /\ last.fault = "none" => last.success

C9_Witness ==
    /\ Returned("execute_query")
    /\ last.fault = "other"
    /\ ~last.success
    /\ last.error = "Unexpected error"

\* C10: every operation tells the two kinds of failure apart: a fault raised
\* by the engine is reported as an engine error ("SQLite error"), any other
\* fault as an unexpected error ("Unexpected error").
C10_ErrorKindsDistinguished ==
    /\ last.fault = "sqlite" => last.error = "SQLite error"
    /\ last.fault = "other" => last.error = "Unexpected error"

\* the tools that write, and the statement a call of one of them ran
WriteOps == {"execute_modification", "insert_data", "create_table"}
StatementOf(res) ==
    CASE res.op = "insert_data" -> InsertStmt(res.table, res.data.items)
      [] res.op = "create_table" -> CreateSql(res.table, res.columns)
      [] OTHER -> res.query.stmt

\* a step in which a call of a writing tool returns: not the step that
\* reclaims a connection (it leaves the connection closed), not a step of a
\* running backup (it moves the backup on)
WriteReturns ==
    /\ last'.op \in WriteOps
    /\ conn' # "closed"
    /\ bk'.pc = bk.pc
    /\ bk'.todo = bk.todo

\* what a connection opened after the step reads
FreshView == get_db_connection(DEFAULT_DB_PATH, db').conn.view

\* C11: write operations are atomic per call: when execute_modification,
\* insert_data or create_table returns success = true, the change its statement
\* makes is committed when the call returns (the connection is not yet
\* released) and is what a fresh connection reads afterwards; when it returns
\* success = false because of an engine error, nothing is committed and the
\* database is as it was before the call.
C11_WritesAtomic ==
    [][WriteReturns =>
          /\ last'.success =>
                /\ Execute(db, StatementOf(last')).exc = "none"
                /\ db' = Execute(db, StatementOf(last')).db
                /\ FreshView = Execute(db, StatementOf(last')).db
                /\ conn' = "open"
          /\ ~last'.success /\ last'.fault = "sqlite" => db' = db]_vars

C11_Witness ==
    /\ Returned("execute_modification")
    /\ last.success
    /\ last.query.stmt.kind = "insert"
    /\ conn = "open"
    /\ GetTable(db, last.query.stmt.table).rows # <<>>

====
